---- MODULE Spec2Model ----
(***************************************************************************)
(* Model of cfg_visualization.py: the CFGBuilder (an ast.NodeVisitor that  *)
(* threads a frontier, last_nodes, through the statements of a parsed      *)
(* program and grows a networkx DiGraph), the script that constructs one   *)
(* builder per run and builds the graph of the text in the editor, and the *)
(* metrics computed from the finished graph.                               *)
(*                                                                         *)
(* The recursion of the visitor is unfolded into an explicit stack of      *)
(* frames, one per statement list being walked, so that every state the    *)
(* builder is in between two visit calls is a state of the model.          *)
(***************************************************************************)
EXTENDS Integers, Sequences, FiniteSets, TLC

\* Largest number of statements (at any nesting depth) of an input program.
MaxStmts == 4

VARIABLES
    code_input,   \* the text in the editor, as what ast.parse makes of it
    graph,        \* builder.graph, an nx.DiGraph
    counter,      \* builder.counter
    last_nodes,   \* builder.last_nodes, the frontier
    stack,        \* the visitor's call stack: one frame per statement list
    pc,           \* the script's position
    result,       \* (graph, error) as returned by build
    metrics,      \* n, e, p, cc of the script
    first_run,    \* whether this is the first run of the script in its session
    calls,        \* number of add_edge calls made by the current build
    previous      \* what the run before showed, while the text is the same

vars == <<code_input, graph, counter, last_nodes, stack, pc, result, metrics, first_run, calls, previous>>

(***************************************************************************)
(* The input: what ast.parse returns for the text, or the SyntaxError it   *)
(* raises.  A statement is an ast node: its class (kind), its source text  *)
(* (for if and while: the text of the test), and its child statement       *)
(* lists.  "Pass" stands for the simple statements that are neither        *)
(* ast.Assign nor ast.Expr (pass, break, return, x += 1), "For" for the    *)
(* compound statements that are neither ast.If nor ast.While (for, def,    *)
(* with, try), whose nested statements are listed in body.                 *)
(***************************************************************************)
Stmt(kind, text, body, orelse) ==
    [kind |-> kind, text |-> text, body |-> body, orelse |-> orelse]

Assign(text) == Stmt("Assign", text, <<>>, <<>>)
Expr(text) == Stmt("Expr", text, <<>>, <<>>)
Pass == Stmt("Pass", "pass", <<>>, <<>>)
If(test, body, orelse) == Stmt("If", test, body, orelse)
While(test, body) == Stmt("While", test, body, <<>>)
For(body) == Stmt("For", "for i in xs:", body, <<>>)
Module(body) == Stmt("Module", "", body, <<>>)

SimpleStmts == {Assign("x = 0"), Expr("print(x)"), Pass}

RECURSIVE StmtLists(_), Stmts(_)
\* All statement lists holding exactly n statements, nested ones included.
StmtLists(n) ==
    IF n = 0 THEN {<<>>}
    ELSE UNION {{<<s>> \o rest : s \in Stmts(k), rest \in StmtLists(n - k)} : k \in 1..n}
\* All single statements holding exactly n statements, itself included.  The
\* body of a compound statement holds at least one statement (the grammar).
Stmts(n) ==
    IF n = 1 THEN SimpleStmts
    ELSE UNION {{If("c", b, e) : b \in StmtLists(k), e \in StmtLists(n - 1 - k)} : k \in 1..(n - 1)}
         \cup {While("c", b) : b \in StmtLists(n - 1)}
         \cup {For(b) : b \in StmtLists(n - 1)}

\* The text the editor starts with.
default_code ==
    << Assign("x = 10"),
       If("x > 5", <<Expr("print('Greater')")>>, <<Assign("x = 0")>>),
       Expr("print('Final x:', x)") >>

\* Programs with a statement whose text is the label of a sentinel node.
NamedLikeSentinels == {<<Expr("START")>>, <<Expr("STOP"), Assign("x = 0")>>}

Programs == UNION {StmtLists(n) : n \in 0..MaxStmts} \cup NamedLikeSentinels

\* ast.parse: a Module with a body, or a SyntaxError with its message.
Parsed(body) == [ok |-> TRUE, body |-> body, msg |-> ""]
SyntaxError(msg) == [ok |-> FALSE, body |-> <<>>, msg |-> msg]

Inputs == {Parsed(p) : p \in Programs} \cup {SyntaxError("invalid syntax"), SyntaxError("")}

\* ast.unparse of a statement or of a test: its source text.
unparse(node) == node.text

(***************************************************************************)
(* nx.DiGraph: nodes in insertion order, each with its attribute           *)
(* dictionary, and at most one edge per ordered pair of nodes, each with   *)
(* its attribute dictionary.  The edges are kept in the order in which     *)
(* they were added.                                                        *)
(***************************************************************************)
DiGraph == [nodes |-> <<>>, edges |-> <<>>]

\* The attribute dictionary of a node that add_edge created.
NoAttrs == [label |-> <<>>, shape |-> "", fillcolor |-> "", style |-> ""]

NodeIds(g) == {g.nodes[i].id : i \in DOMAIN g.nodes}
NodeAt(g, id) == CHOOSE i \in DOMAIN g.nodes : g.nodes[i].id = id
HasEdge(g, u, v) == \E i \in DOMAIN g.edges : g.edges[i].source = u /\ g.edges[i].target = v
EdgeAt(g, u, v) == CHOOSE i \in DOMAIN g.edges : g.edges[i].source = u /\ g.edges[i].target = v

\* DiGraph.add_node: a new node, or new attributes for the node there is.
add_node(g, id, attrs) ==
    IF id \in NodeIds(g)
    THEN [g EXCEPT !.nodes[NodeAt(g, id)].attrs = attrs]
    ELSE [g EXCEPT !.nodes = Append(@, [id |-> id, attrs |-> attrs])]

\* DiGraph.add_edge creates the endpoints it does not know.
with_node(g, id) == IF id \in NodeIds(g) THEN g ELSE add_node(g, id, NoAttrs)

\* DiGraph.add_edge: a new edge, or a new label for the edge there is
\* between the two nodes.
DiGraph_add_edge(g, u, v, label) ==
    LET g2 == with_node(with_node(g, u), v)
    IN  IF HasEdge(g2, u, v)
        THEN [g2 EXCEPT !.edges[EdgeAt(g2, u, v)].label = label]
        ELSE [g2 EXCEPT !.edges = Append(@, [source |-> u, target |-> v, label |-> label])]

number_of_nodes(g) == Len(g.nodes)
number_of_edges(g) == Len(g.edges)
out_degree(g, n) == Cardinality({i \in DOMAIN g.edges : g.edges[i].source = n})
in_degree(g, n) == Cardinality({i \in DOMAIN g.edges : g.edges[i].target = n})

(***************************************************************************)
(* CFGBuilder                                                              *)
(***************************************************************************)
\* f"node_{counter}"
node_id(c) == <<"node_", c>>

\* Mutant of new_node: the id is formatted before the counter is incremented.
new_node_stale_id(g, c, label, shape, color) ==
    [ counter |-> c + 1,
      id |-> node_id(c),
      graph |-> add_node(g, node_id(c + 1),
                         [label |-> label, shape |-> shape, fillcolor |-> color, style |-> "filled"]) ]

\* new_node: the next id, and the node of that id with its four attributes.
new_node(g, c, label, shape, color) ==
    [ counter |-> c + 1,
      id |-> node_id(c + 1),
      graph |-> add_node(g, node_id(c + 1),
                         [label |-> label, shape |-> shape, fillcolor |-> color, style |-> "filled"]) ]

\* Mutant of add_edge: the endpoints swapped.
add_edge_swapped(g, source, target, label) == DiGraph_add_edge(g, target, source, label)

add_edge(g, source, target, label) == DiGraph_add_edge(g, source, target, label)

RECURSIVE add_edges(_, _, _, _)
\* for prev in sources: self.add_edge(prev, target, label)
add_edges(g, sources, target, label) ==
    IF sources = <<>> THEN g
    ELSE add_edges(add_edge(g, Head(sources), target, label), Tail(sources), target, label)

\* A frame of the visitor: the node whose statement list is being walked (the
\* module, an if in its body ("If") or in its orelse ("Else"), a while), the
\* statements of that list still to visit, and the locals cond and if_exits
\* of the visit_If or visit_While call.
Frame(kind, node, todo, cond, if_exits) ==
    [kind |-> kind, node |-> node, todo |-> todo, cond |-> cond, if_exits |-> if_exits]

NoNode == node_id(0)
NoResult == [graph |-> <<>>, error |-> <<>>]
NoMetrics == [n |-> 0, e |-> 0, p |-> 0, cc |-> 0, shown |-> FALSE]

Top == stack[Len(stack)]
Visiting(kinds) ==
    /\ pc = "visit"
    /\ stack # <<>>
    /\ Top.todo # <<>>
    /\ Head(Top.todo).kind \in kinds
Returning(kind) ==
    /\ pc = "visit"
    /\ stack # <<>>
    /\ Top.todo = <<>>
    /\ Top.kind = kind
\* The stack with the statement being visited taken off its list.
Visited == [stack EXCEPT ![Len(stack)].todo = Tail(@)]
Popped == SubSeq(stack, 1, Len(stack) - 1)

\* Mutant of CFGBuilder_init: the constructor creates START too.
CFGBuilder_init_with_START ==
    [ graph |-> new_node(DiGraph, 0, <<"START">>, "ellipse", "#DAF7A6").graph,
      counter |-> 1,
      last_nodes |-> <<node_id(1)>> ]

\* Mutant of CFGBuilder_init: the builder of the run before is used again.
CFGBuilder_init_cached ==
    IF previous # <<>> /\ previous[1].result.graph # <<>>
    THEN [ graph |-> previous[1].result.graph[1],
           counter |-> number_of_nodes(previous[1].result.graph[1]),
           last_nodes |-> <<>> ]
    ELSE [graph |-> DiGraph, counter |-> 0, last_nodes |-> <<>>]

\* CFGBuilder.__init__
CFGBuilder_init == [graph |-> DiGraph, counter |-> 0, last_nodes |-> <<>>]

\* Before the script has bound its names.
NoInput == SyntaxError("")

Init ==
    /\ code_input = NoInput
    /\ graph = DiGraph
    /\ counter = 0
    /\ last_nodes = <<>>
    /\ stack = <<>>
    /\ pc = "script"
    /\ result = NoResult
    /\ metrics = NoMetrics
    /\ first_run = TRUE
    /\ calls = 0
    /\ previous = <<>>

\* The script up to the call of build: code_input = st.text_area("Python Code:",
\* value=default_code), the text in the editor, which is default_code in the
\* first run of a session and any text in a rerun, and builder = CFGBuilder().
script_start ==
    /\ pc = "script"
    /\ code_input' \in (IF previous # <<>> THEN {previous[1].code_input}
                       ELSE IF first_run THEN {Parsed(default_code)} ELSE Inputs)
    /\ graph' = CFGBuilder_init.graph
    /\ counter' = CFGBuilder_init.counter
    /\ last_nodes' = CFGBuilder_init.last_nodes
    /\ result' = NoResult
    /\ metrics' = NoMetrics
    /\ calls' = 0
    /\ pc' = "build"
    /\ UNCHANGED <<stack, first_run, previous>>

\* Mutant of build_SyntaxError: START is created before the text is parsed.
build_SyntaxError_after_START ==
    /\ pc = "build"
    /\ ~code_input.ok
    /\ LET start == new_node(graph, counter, <<"START">>, "ellipse", "#DAF7A6")
       IN  /\ graph' = start.graph
           /\ counter' = start.counter
           /\ last_nodes' = <<start.id>>
    /\ result' = [graph |-> <<>>, error |-> <<<<"Syntax Error: ", code_input.msg>>>>]
    /\ pc' = "returned"
    /\ UNCHANGED <<code_input, stack, metrics, first_run, calls, previous>>

\* build, the text does not parse
build_SyntaxError ==
    /\ pc = "build"
    /\ ~code_input.ok
    /\ result' = [graph |-> <<>>, error |-> <<<<"Syntax Error: ", code_input.msg>>>>]
    /\ pc' = "returned"
    /\ UNCHANGED <<code_input, graph, counter, last_nodes, stack, metrics, first_run, calls, previous>>

\* build, up to the loop over tree.body
build_start ==
    /\ pc = "build"
    /\ code_input.ok
    /\ LET start == new_node(graph, counter, <<"START">>, "ellipse", "#DAF7A6")
       IN  /\ graph' = start.graph
           /\ counter' = start.counter
           /\ last_nodes' = <<start.id>>
    /\ stack' = <<Frame("Module", Module(code_input.body), code_input.body, NoNode, <<>>)>>
    /\ pc' = "visit"
    /\ UNCHANGED <<code_input, result, metrics, first_run, calls, previous>>

\* build, after the loop over tree.body
build_end ==
    /\ Returning("Module")
    /\ LET end == new_node(graph, counter, <<"STOP">>, "ellipse", "#FFC300")
           g == add_edges(end.graph, last_nodes, end.id, "")
       IN  /\ graph' = g
           /\ counter' = end.counter
           /\ result' = [graph |-> <<g>>, error |-> <<>>]
    /\ calls' = calls + Len(last_nodes)
    /\ stack' = Popped
    /\ pc' = "returned"
    /\ UNCHANGED <<code_input, last_nodes, metrics, first_run, previous>>

\* Mutant of visit_Assign: the node is appended to the frontier.
visit_Assign_appends ==
    /\ Visiting({"Assign"})
    /\ LET node == Head(Top.todo)
           curr == new_node(graph, counter, <<unparse(node)>>, "rect", "#ffffff")
       IN  /\ graph' = add_edges(curr.graph, last_nodes, curr.id, "")
           /\ counter' = curr.counter
           /\ last_nodes' = Append(last_nodes, curr.id)
    /\ calls' = calls + Len(last_nodes)
    /\ stack' = Visited
    /\ UNCHANGED <<code_input, pc, result, metrics, first_run, previous>>

visit_Assign ==
    /\ Visiting({"Assign"})
    /\ LET node == Head(Top.todo)
           curr == new_node(graph, counter, <<unparse(node)>>, "rect", "#ffffff")
       IN  /\ graph' = add_edges(curr.graph, last_nodes, curr.id, "")
           /\ counter' = curr.counter
           /\ last_nodes' = <<curr.id>>
    /\ calls' = calls + Len(last_nodes)
    /\ stack' = Visited
    /\ UNCHANGED <<code_input, pc, result, metrics, first_run, previous>>

\* Mutant of visit_Expr: the node is not linked to the frontier.
visit_Expr_unlinked ==
    /\ Visiting({"Expr"})
    /\ LET node == Head(Top.todo)
           curr == new_node(graph, counter, <<unparse(node)>>, "rect", "#ffffff")
       IN  /\ graph' = curr.graph
           /\ counter' = curr.counter
           /\ last_nodes' = <<curr.id>>
    /\ stack' = Visited
    /\ UNCHANGED <<code_input, pc, result, metrics, first_run, calls, previous>>

visit_Expr ==
    /\ Visiting({"Expr"})
    /\ LET node == Head(Top.todo)
           curr == new_node(graph, counter, <<unparse(node)>>, "rect", "#ffffff")
       IN  /\ graph' = add_edges(curr.graph, last_nodes, curr.id, "")
           /\ counter' = curr.counter
           /\ last_nodes' = <<curr.id>>
    /\ calls' = calls + Len(last_nodes)
    /\ stack' = Visited
    /\ UNCHANGED <<code_input, pc, result, metrics, first_run, previous>>

\* NodeVisitor.generic_visit, for a statement with no visit_ method: visits
\* the child nodes, of which the nested statements are the ones with effect.
generic_visit ==
    /\ Visiting({"Pass", "For"})
    /\ LET node == Head(Top.todo)
       IN  stack' = [stack EXCEPT ![Len(stack)].todo = node.body \o node.orelse \o Tail(@)]
    /\ UNCHANGED <<code_input, graph, counter, last_nodes, pc, result, metrics, first_run, calls, previous>>

\* visit_If, up to the loop over node.body
visit_If ==
    /\ Visiting({"If"})
    /\ LET node == Head(Top.todo)
           cond == new_node(graph, counter, <<"if ", unparse(node), ":">>, "diamond", "#AED6F1")
       IN  /\ graph' = add_edges(cond.graph, last_nodes, cond.id, "")
           /\ counter' = cond.counter
           /\ last_nodes' = <<cond.id>>
           /\ stack' = Append(Visited, Frame("If", node, node.body, cond.id, <<>>))
    /\ calls' = calls + Len(last_nodes)
    /\ UNCHANGED <<code_input, pc, result, metrics, first_run, previous>>

\* self.last_nodes = if_exits + else_exits
\* Mutant of merge: the exits of the else arm are dropped.
merge_if_exits_only(if_exits, else_exits) == if_exits

merge(if_exits, else_exits) == if_exits \o else_exits

\* visit_If, after the loop over node.body, when there is an orelse
visit_If_orelse ==
    /\ Returning("If")
    /\ Top.node.orelse # <<>>
    /\ stack' = Append(Popped, Frame("Else", Top.node, Top.node.orelse, Top.cond, last_nodes))
    /\ last_nodes' = <<Top.cond>>
    /\ UNCHANGED <<code_input, graph, counter, pc, result, metrics, first_run, calls, previous>>

\* visit_If, after the loop over node.body, when there is no orelse
visit_If_no_orelse ==
    /\ Returning("If")
    /\ Top.node.orelse = <<>>
    /\ LET if_exits == last_nodes
           else_exits == <<Top.cond>>
       IN  last_nodes' = merge(if_exits, else_exits)
    /\ stack' = Popped
    /\ UNCHANGED <<code_input, graph, counter, pc, result, metrics, first_run, calls, previous>>

\* visit_If, after the loop over node.orelse
visit_If_merge ==
    /\ Returning("Else")
    /\ LET if_exits == Top.if_exits
           else_exits == last_nodes
       IN  last_nodes' = merge(if_exits, else_exits)
    /\ stack' = Popped
    /\ UNCHANGED <<code_input, graph, counter, pc, result, metrics, first_run, calls, previous>>

\* Mutant of visit_While: the frontier is not reset to the predicate before
\* the body is visited.
visit_While_keeps_frontier ==
    /\ Visiting({"While"})
    /\ LET node == Head(Top.todo)
           cond == new_node(graph, counter, <<"while ", unparse(node), ":">>, "diamond", "#F9E79F")
       IN  /\ graph' = add_edges(cond.graph, last_nodes, cond.id, "")
           /\ counter' = cond.counter
           /\ last_nodes' = Append(last_nodes, cond.id)
           /\ stack' = Append(Visited, Frame("While", node, node.body, cond.id, <<>>))
    /\ calls' = calls + Len(last_nodes)
    /\ UNCHANGED <<code_input, pc, result, metrics, first_run, previous>>

\* visit_While, up to the loop over node.body (node.orelse is not visited)
visit_While ==
    /\ Visiting({"While"})
    /\ LET node == Head(Top.todo)
           cond == new_node(graph, counter, <<"while ", unparse(node), ":">>, "diamond", "#F9E79F")
       IN  /\ graph' = add_edges(cond.graph, last_nodes, cond.id, "")
           /\ counter' = cond.counter
           /\ last_nodes' = <<cond.id>>
           /\ stack' = Append(Visited, Frame("While", node, node.body, cond.id, <<>>))
    /\ calls' = calls + Len(last_nodes)
    /\ UNCHANGED <<code_input, pc, result, metrics, first_run, previous>>

\* Mutant of loop_edges: the loop is never closed.
loop_edges_forgotten(g, exits, cond) == g

\* Mutant of loop_edges: the back-edges carry no label.
loop_edges_unlabelled(g, exits, cond) == add_edges(g, exits, cond, "")

\* for node_exit in self.last_nodes: self.add_edge(node_exit, cond, label="Loop")
loop_edges(g, exits, cond) == add_edges(g, exits, cond, "Loop")

\* Mutant of visit_While_loop: the exits of the body stay in the frontier.
visit_While_loop_keeps_exits ==
    /\ Returning("While")
    /\ graph' = loop_edges(graph, last_nodes, Top.cond)
    /\ calls' = calls + Len(last_nodes)
    /\ last_nodes' = Append(last_nodes, Top.cond)
    /\ stack' = Popped
    /\ UNCHANGED <<code_input, counter, pc, result, metrics, first_run, previous>>

\* visit_While, after the loop over node.body
visit_While_loop ==
    /\ Returning("While")
    /\ graph' = loop_edges(graph, last_nodes, Top.cond)
    /\ calls' = calls + Len(last_nodes)
    /\ last_nodes' = <<Top.cond>>
    /\ stack' = Popped
    /\ UNCHANGED <<code_input, counter, pc, result, metrics, first_run, previous>>

\* p = len([node for node in graph.nodes() if graph.out_degree(node) > 1])
predicates(g) == Cardinality({i \in DOMAIN g.nodes : out_degree(g, g.nodes[i].id) > 1})

\* Mutant of calculate: the complexity taken as e - n + 1.
calculate_off_by_one(g) ==
    LET n == number_of_nodes(g)
        e == number_of_edges(g)
    IN  [n |-> n, e |-> e, p |-> predicates(g), cc |-> e - n + 1, shown |-> TRUE]

\* The four metrics of the script.
calculate(g) ==
    LET n == number_of_nodes(g)
        e == number_of_edges(g)
    IN  [n |-> n, e |-> e, p |-> predicates(g), cc |-> e - n + 2, shown |-> TRUE]

\* if not error: the metrics and the drawing
show_metrics ==
    /\ pc = "returned"
    /\ result.error = <<>>
    /\ metrics' = calculate(result.graph[1])
    /\ pc' = "shown"
    /\ UNCHANGED <<code_input, graph, counter, last_nodes, stack, result, first_run, calls, previous>>

\* else: st.error(error)
show_error ==
    /\ pc = "returned"
    /\ result.error # <<>>
    /\ pc' = "shown"
    /\ UNCHANGED <<code_input, graph, counter, last_nodes, stack, result, metrics, first_run, calls, previous>>

\* The text in the editor changes and the script runs again from its first
\* line in a namespace of its own: no object of the last run is kept.
rerun ==
    /\ pc = "shown"
    /\ first_run' = FALSE
    /\ code_input' = NoInput
    /\ graph' = DiGraph
    /\ counter' = 0
    /\ last_nodes' = <<>>
    /\ stack' = <<>>
    /\ result' = NoResult
    /\ metrics' = NoMetrics
    /\ calls' = 0
    /\ pc' = "script"
    /\ previous' = <<>>

\* The script runs again with the text as it is (the text area keeps its
\* value over reruns): again from its first line in a namespace of its own.
rerun_same_text ==
    /\ pc = "shown"
    /\ first_run' = FALSE
    /\ code_input' = NoInput
    /\ graph' = DiGraph
    /\ counter' = 0
    /\ last_nodes' = <<>>
    /\ stack' = <<>>
    /\ result' = NoResult
    /\ metrics' = NoMetrics
    /\ calls' = 0
    /\ pc' = "script"
    /\ previous' = <<[code_input |-> code_input, result |-> result, metrics |-> metrics]>>

Next ==
    \/ script_start
    \/ build_SyntaxError
    \/ build_start
    \/ build_end
    \/ visit_Assign
    \/ visit_Expr
    \/ generic_visit
    \/ visit_If
    \/ visit_If_orelse
    \/ visit_If_no_orelse
    \/ visit_If_merge
    \/ visit_While
    \/ visit_While_loop
    \/ show_metrics
    \/ show_error
    \/ rerun
    \/ rerun_same_text

Spec == Init /\ [][Next]_vars

(***************************************************************************)
(* Properties                                                              *)
(***************************************************************************)
\* build has returned a graph.
Finished == pc \in {"returned", "shown"} /\ result.graph # <<>>
\* The graph build returned, once Finished.
Built == result.graph[1]

\* The sentinel nodes, as build creates them.
STARTAttrs == [label |-> <<"START">>, shape |-> "ellipse", fillcolor |-> "#DAF7A6", style |-> "filled"]
STOPAttrs == [label |-> <<"STOP">>, shape |-> "ellipse", fillcolor |-> "#FFC300", style |-> "filled"]
NodesWith(g, attrs) == {g.nodes[i].id : i \in {j \in DOMAIN g.nodes : g.nodes[j].attrs = attrs}}
LoopEdges(g) == {i \in DOMAIN g.edges : g.edges[i].label = "Loop"}
Range(seq) == {seq[i] : i \in DOMAIN seq}
\* The ids new_node has returned since the builder was constructed.
Created == {node_id(k) : k \in 1..counter}

Successors(g, S) == {g.edges[i].target : i \in {j \in DOMAIN g.edges : g.edges[j].source \in S}}
Neighbours(g, S) ==
    Successors(g, S) \cup {g.edges[i].source : i \in {j \in DOMAIN g.edges : g.edges[j].target \in S}}
RECURSIVE ReachableFrom(_, _), ConnectedTo(_, _)
\* The nodes a directed path leads to from a node of S.
ReachableFrom(g, S) ==
    LET T == S \cup Successors(g, S) IN IF T = S THEN S ELSE ReachableFrom(g, T)
\* The nodes a path leads to from a node of S, whatever the direction of its edges.
ConnectedTo(g, S) ==
    LET T == S \cup Neighbours(g, S) IN IF T = S THEN S ELSE ConnectedTo(g, T)

\* C1: the graph build returns has exactly one START node and exactly one
\* STOP node; no edge enters START and no edge leaves STOP.
C1_OneStartOneStop ==
    Finished =>
        /\ Cardinality(NodesWith(Built, STARTAttrs)) = 1
        /\ Cardinality(NodesWith(Built, STOPAttrs)) = 1
        /\ \A n \in NodesWith(Built, STARTAttrs) : in_degree(Built, n) = 0
        /\ \A n \in NodesWith(Built, STOPAttrs) : out_degree(Built, n) = 0

\* A build of a program with a loop and at least three statements has returned.
C1_Witness ==
    /\ Finished
    /\ number_of_nodes(Built) >= 5
    /\ LoopEdges(Built) # {}

\* C2: the metrics shown for a finished graph satisfy
\* cyclomatic_complexity = predicates + 1, with cyclomatic_complexity =
\* edges - nodes + 2 and predicates the number of nodes of out-degree > 1.
C2_ComplexityIsPredicatesPlusOne ==
    metrics.shown =>
        /\ metrics.cc = Len(Built.edges) - Len(Built.nodes) + 2
        /\ metrics.p = Cardinality({n \in NodeIds(Built) : out_degree(Built, n) > 1})
        /\ metrics.cc = metrics.p + 1

\* Metrics are shown for a program with two predicates, one of them a loop.
C2_Witness ==
    /\ metrics.shown
    /\ metrics.p >= 2
    /\ LoopEdges(Built) # {}

\* C3: visiting a statement that is no assignment, expression, if or while
\* creates exactly one node, adds an edge to it from every node of the
\* frontier and makes it the frontier.
C3_OtherStatementIsSequential ==
    [][generic_visit =>
        /\ counter' = counter + 1
        /\ Len(graph'.nodes) = Len(graph.nodes) + 1
        /\ \A n \in Range(last_nodes) : HasEdge(graph', n, node_id(counter'))
        /\ last_nodes' = <<node_id(counter')>>]_vars

\* C4: a build of a text that does not parse returns no graph and a
\* non-empty error description, and leaves the graph, the counter and the
\* frontier of the builder as they were.
C4_ParseFailureChangesNothing ==
    [][(pc = "build" /\ ~code_input.ok) =>
        /\ pc' = "returned"
        /\ result'.graph = <<>>
        /\ Len(result'.error) = 1
        /\ \E i \in DOMAIN result'.error[1] : result'.error[1][i] # ""
        /\ graph' = graph
        /\ counter' = counter
        /\ last_nodes' = last_nodes]_vars

\* build has returned the error of a text that does not parse, and the
\* builder holds no node.
C4_Witness ==
    /\ pc = "returned"
    /\ ~code_input.ok
    /\ result.error # <<>>
    /\ graph.nodes = <<>>

\* C5: every node of the finished graph, STOP included, is reachable from
\* START along directed edges, and the graph is weakly connected.  This
\* holds of every program, those with an arm or a body that creates no
\* node included.
C5_ReachableFromStart ==
    Finished =>
        /\ ReachableFrom(Built, NodesWith(Built, STARTAttrs)) = NodeIds(Built)
        /\ ConnectedTo(Built, NodesWith(Built, STARTAttrs)) = NodeIds(Built)

\* A finished graph of a program with an if that has both arms, each of
\* which created a node, and a node created after the if.
C5_Witness ==
    /\ Finished
    /\ \E i \in DOMAIN code_input.body :
          /\ code_input.body[i].kind = "If"
          /\ code_input.body[i].orelse # <<>>
          /\ \A j \in DOMAIN code_input.body[i].body : code_input.body[i].body[j].kind \in {"Assign", "Expr"}
          /\ \A j \in DOMAIN code_input.body[i].orelse : code_input.body[i].orelse[j].kind \in {"Assign", "Expr"}
    /\ number_of_nodes(Built) >= 6

\* C6: in every state, the source and the target of every edge are ids that
\* new_node has returned, of nodes that are in the graph with the
\* attributes new_node gave them.
C6_EdgesJoinCreatedNodes ==
    \A i \in DOMAIN graph.edges :
        \A n \in {graph.edges[i].source, graph.edges[i].target} :
            /\ n \in Created
            /\ n \in NodeIds(graph)
            /\ graph.nodes[NodeAt(graph, n)].attrs # NoAttrs

\* A build is under way in the body of a loop inside a conditional or a loop.
C6_Witness ==
    /\ pc = "visit"
    /\ Len(stack) >= 3
    /\ Len(graph.edges) >= 3

Last(seq) == seq[Len(seq)]
\* The statements that neither branch nor loop nor hold other statements.
SimpleKinds == {"Assign", "Expr", "Pass"}
StraightLine(body) == \A i \in DOMAIN body : body[i].kind \in SimpleKinds
\* The sources of the edges labeled "Loop" that enter cond.
LoopSources(g, cond) ==
    {g.edges[i].source : i \in {j \in LoopEdges(g) : g.edges[j].target = cond}}
EdgesBetween(g, u, v) == {i \in DOMAIN g.edges : g.edges[i].source = u /\ g.edges[i].target = v}

\* C7: when the body of a while has been visited, the edges labeled "Loop"
\* that enter its predicate come from the nodes of the frontier the body
\* left, each of them; a straight-line body gives exactly one, from the last
\* node of the body (a node created after the predicate); a body that is an
\* if with one assignment or expression in each arm gives two, one from the
\* node of each arm.
C7_LoopBackEdges ==
    [][visit_While_loop =>
        LET cond == Top.cond
            body == Top.node.body
            sources == LoopSources(graph', cond)
        IN  /\ sources = Range(last_nodes)
            /\ StraightLine(body) =>
                  /\ sources = {node_id(counter)}
                  /\ counter > cond[2]
            /\ ( /\ Len(body) = 1
                 /\ body[1].kind = "If"
                 /\ Len(body[1].body) = 1 /\ body[1].body[1].kind \in {"Assign", "Expr"}
                 /\ Len(body[1].orelse) = 1 /\ body[1].orelse[1].kind \in {"Assign", "Expr"} ) =>
                  sources = {node_id(counter - 1), node_id(counter)}]_vars

\* C8: after a conditional the frontier is the exits of the true branch
\* followed by those of the false branch, which are the predicate alone when
\* there is no else; the node created next has one edge from each node of
\* the frontier; and when the last statement of the program is an if/else
\* with one simple statement in each arm, STOP has exactly 2 incoming edges.
C8_ConditionalExits ==
    [][ /\ visit_If_no_orelse => last_nodes' = last_nodes \o <<Top.cond>>
        /\ visit_If_merge => last_nodes' = Top.if_exits \o last_nodes
        /\ (pc = "visit" /\ counter' = counter + 1) =>
              \A n \in Range(last_nodes) :
                  Cardinality(EdgesBetween(graph', n, node_id(counter'))) = 1
        /\ ( /\ build_end
             /\ code_input.body # <<>>
             /\ Last(code_input.body).kind = "If"
             /\ Len(Last(code_input.body).body) = 1
             /\ Len(Last(code_input.body).orelse) = 1
             /\ StraightLine(Last(code_input.body).body)
             /\ StraightLine(Last(code_input.body).orelse) ) =>
              in_degree(graph', node_id(counter')) = 2 ]_vars

\* C9: every add_edge call adds one edge, so the graph has as many edges as
\* add_edge calls were made since the builder was constructed.
C9_EdgeCountIsCallCount == number_of_edges(graph) = calls

\* C10: whatever ran before it, a build starts from an empty graph, a
\* counter of 0 and an empty frontier, and from then on the graph holds the
\* nodes that new_node has created in this build and no more edges than
\* add_edge calls of this build; the graph it returns is that graph.
C10_BuildsAreIndependent ==
    /\ pc = "build" => (graph = DiGraph /\ counter = 0 /\ last_nodes = <<>> /\ calls = 0)
    /\ pc \in {"visit", "returned", "shown"} =>
          /\ NodeIds(graph) = Created
          /\ number_of_nodes(graph) = counter
          /\ number_of_edges(graph) <= calls
    /\ Finished => Built = graph

\* A build in a rerun of the script, after the build of the first run, has
\* returned a graph.
C10_Witness ==
    /\ ~first_run
    /\ Finished
    /\ number_of_nodes(Built) >= 3

\* The labels of the nodes of g, in the order the nodes were created.
NodeLabels(g) == [i \in DOMAIN g.nodes |-> g.nodes[i].attrs.label]

C12_StraightLineProgram ==
    ( /\ metrics.shown
      /\ \A i \in DOMAIN code_input.body : code_input.body[i].kind \in {"Assign", "Expr"} ) =>
        LET k == Len(code_input.body)
        IN  /\ metrics.n = k + 2
            /\ metrics.e = k + 1
            /\ metrics.p = 0
            /\ metrics.cc = 1
            /\ number_of_nodes(Built) = k + 2
            /\ number_of_edges(Built) = k + 1
            /\ k = 0 =>
                  /\ Built.nodes[1].attrs = STARTAttrs
                  /\ Built.nodes[2].attrs = STOPAttrs
                  /\ HasEdge(Built, Built.nodes[1].id, Built.nodes[2].id)

\* Metrics are shown for a program of three assignment and expression statements.
C12_Witness ==
    /\ metrics.shown
    /\ Len(code_input.body) = 3
    /\ \A i \in DOMAIN code_input.body : code_input.body[i].kind \in {"Assign", "Expr"}

\* The empty program has been built.
C12_WitnessEmpty ==
    /\ metrics.shown
    /\ code_input.body = <<>>

(***************************************************************************)
(* The builder's two graph methods under a caller that passes any ids.     *)
(* build only passes ids new_node returned (C6), so the contract of        *)
(* add_edge for other ids is exercised by this caller and not by the       *)
(* script.                                                                 *)
(***************************************************************************)
MaxApiNodes == 2
MaxApiCalls == 2

\* The ids a caller may pass: those new_node can have returned, and one more.
ApiIds == {node_id(k) : k \in 1..(MaxApiNodes + 1)}
EdgeLabels == {"", "Loop"}

\* builder = CFGBuilder()
ApiInit ==
    /\ code_input = NoInput
    /\ graph = CFGBuilder_init.graph
    /\ counter = CFGBuilder_init.counter
    /\ last_nodes = CFGBuilder_init.last_nodes
    /\ stack = <<>>
    /\ pc = "api"
    /\ result = NoResult
    /\ metrics = NoMetrics
    /\ first_run = TRUE
    /\ calls = 0
    /\ previous = <<>>

\* builder.new_node(label, shape)
api_new_node ==
    /\ pc = "api"
    /\ counter < MaxApiNodes
    /\ \E shape \in {"rect", "diamond"} :
          LET made == new_node(graph, counter, <<"x = 0">>, shape, "#ffffff")
          IN  /\ graph' = made.graph
              /\ counter' = made.counter
    /\ UNCHANGED <<code_input, last_nodes, stack, pc, result, metrics, first_run, calls, previous>>

\* builder.add_edge(source, target, label): there is no check of the two
\* ids and nothing is raised, so result stays without an error.
api_add_edge(source, target, label) ==
    /\ pc = "api"
    /\ calls < MaxApiCalls
    /\ graph' = add_edge(graph, source, target, label)
    /\ calls' = calls + 1
    /\ UNCHANGED <<code_input, counter, last_nodes, stack, pc, result, metrics, first_run, previous>>

ApiNext ==
    \/ api_new_node
    \/ \E source, target \in ApiIds, label \in EdgeLabels : api_add_edge(source, target, label)

ApiSpec == ApiInit /\ [][ApiNext]_vars

\* C13: add_edge with a source or target id that is not an id of the graph
\* fails with InvalidReference and leaves the graph unchanged: no edge and no
\* node is added.
C13_UnknownEndpointIsRejected ==
    [][ \A source, target \in ApiIds, label \in EdgeLabels :
          ( /\ api_add_edge(source, target, label)
            /\ ~ ({source, target} \subseteq NodeIds(graph)) ) =>
              /\ graph' = graph
              /\ result'.error = <<"InvalidReference">> ]_vars

\* The number of nodes the visit of a statement list creates: one for each
\* statement with a visit_ method, and those of the nested lists.
RECURSIVE nodes_created(_)
nodes_created(stmts) ==
    IF stmts = <<>> THEN 0
    ELSE LET s == Head(stmts)
             own == IF s.kind \in {"Assign", "Expr", "If", "While"} THEN 1 ELSE 0
         IN  own + nodes_created(s.body) + nodes_created(s.orelse) + nodes_created(Tail(stmts))

\* The while statements of a list visited with the counter at c: for each,
\* the counter of its predicate and the counter of the last node of its body.
RECURSIVE while_loops(_, _)
while_loops(stmts, c) ==
    IF stmts = <<>> THEN {}
    ELSE LET s == Head(stmts)
             own == IF s.kind \in {"Assign", "Expr", "If", "While"} THEN 1 ELSE 0
             inBody == nodes_created(s.body)
             this == IF s.kind = "While"
                     THEN {[cond |-> c + 1, last |-> c + 1 + inBody]}
                     ELSE {}
         IN  this \cup while_loops(s.body, c + own)
                  \cup while_loops(s.orelse, c + own + inBody)
                  \cup while_loops(Tail(stmts), c + own + inBody + nodes_created(s.orelse))

\* No node of a loop body has an edge to a node created after the loop.
BodiesLeaveThroughPredicate ==
    \A l \in while_loops(code_input.body, 1) :
        \A i \in DOMAIN graph.edges :
            graph.edges[i].source[2] \in (l.cond + 1)..l.last => graph.edges[i].target[2] <= l.last

\* C14: after a while statement is visited the frontier is exactly its
\* predicate, so what is created next (at the latest STOP) gets its edge from
\* the predicate only: no node of the loop body has an edge to a node created
\* after the loop.
C14_LoopExitsThroughPredicate ==
    [][ /\ Returning("While") => last_nodes' = <<Top.cond>>
        /\ BodiesLeaveThroughPredicate' ]_vars

\* A loop with a node in its body, followed by a statement with a node, has
\* been built.
C14_Witness ==
    /\ Finished
    /\ \E i \in DOMAIN code_input.body :
          /\ code_input.body[i].kind = "While"
          /\ nodes_created(code_input.body[i].body) > 0
          /\ nodes_created(SubSeq(code_input.body, i + 1, Len(code_input.body))) > 0

\* The edges a step adds to the graph.
NewEdges == {graph'.edges[i] : i \in (Len(graph.edges) + 1)..Len(graph'.edges)}

\* C15: the visit of an assignment or expression statement creates exactly
\* one node, adds one edge to it from every node of the frontier as it was
\* before the visit and no other edge, and leaves the frontier holding that
\* node alone.
C15_SequentialStatement ==
    [][ Visiting({"Assign", "Expr"}) =>
          LET curr == node_id(counter + 1)
          IN  /\ counter' = counter + 1
              /\ curr \notin NodeIds(graph)
              /\ graph'.nodes = Append(graph.nodes, graph'.nodes[Len(graph'.nodes)])
              /\ graph'.nodes[Len(graph'.nodes)].id = curr
              /\ graph'.nodes[Len(graph'.nodes)].attrs.label = <<unparse(Head(Top.todo))>>
              /\ SubSeq(graph'.edges, 1, Len(graph.edges)) = graph.edges
              /\ NewEdges = {[source |-> n, target |-> curr, label |-> ""] : n \in Range(last_nodes)}
              /\ last_nodes' = <<curr>> ]_vars

\* An assignment has been visited with two different nodes in the frontier.
C15_Witness ==
    /\ pc = "visit"
    /\ \E i \in DOMAIN graph.nodes :
          /\ graph.nodes[i].attrs.shape = "rect"
          /\ in_degree(graph, graph.nodes[i].id) = 2
          /\ last_nodes = <<graph.nodes[i].id>>

\* C16: the frontier is an ordered set: in every state after START is
\* created it is not empty, holds only ids of nodes of the graph, and holds no
\* id twice, also after a conditional one of whose branches creates no node.
C16_FrontierIsOrderedSet ==
    (code_input.ok /\ pc \in {"visit", "returned", "shown"}) =>
        /\ last_nodes # <<>>
        /\ Range(last_nodes) \subseteq NodeIds(graph)
        /\ \A i, j \in DOMAIN last_nodes : last_nodes[i] = last_nodes[j] => i = j

\* A step that keeps the nodes and edges there are, and whose new nodes have
\* ids greater than every id before them.
Grows ==
    /\ Len(graph'.nodes) >= Len(graph.nodes)
    /\ SubSeq(graph'.nodes, 1, Len(graph.nodes)) = graph.nodes
    /\ Len(graph'.edges) >= Len(graph.edges)
    /\ SubSeq(graph'.edges, 1, Len(graph.edges)) = graph.edges
    /\ counter' >= counter
    /\ \A i \in (Len(graph.nodes) + 1)..Len(graph'.nodes) :
          /\ graph'.nodes[i].id \notin NodeIds(graph)
          /\ \A j \in 1..(i - 1) : graph'.nodes[j].id[2] < graph'.nodes[i].id[2]

\* C17: the graph only grows while it is built: every step keeps the nodes
\* and edges there are, with their labels and attributes, and every id
\* new_node returns is greater than, and different from, every id it returned
\* before.
C17_GraphOnlyGrows ==
    [][(pc \in {"build", "visit"}) => Grows]_vars

\* A loop has been closed in a graph that already had the edge into its
\* predicate: nodes and edges were added to a graph that was not empty.
C17_Witness ==
    /\ pc = "visit"
    /\ LoopEdges(graph) # {}
    /\ counter >= 3

\* The number of if and while statements of a statement list, nested ones
\* included.
RECURSIVE branch_statements(_)
branch_statements(stmts) ==
    IF stmts = <<>> THEN 0
    ELSE LET s == Head(stmts)
             own == IF s.kind \in {"If", "While"} THEN 1 ELSE 0
         IN  own + branch_statements(s.body) + branch_statements(s.orelse)
                 + branch_statements(Tail(stmts))

\* C18: the predicates metric is the number of if and while statements of
\* the input: every if-predicate and while-predicate node has more than one
\* outgoing edge and no other node has.
C18_PredicatesAreBranchStatements ==
    metrics.shown =>
        /\ metrics.p = branch_statements(code_input.body)
        /\ \A i \in DOMAIN Built.nodes :
              out_degree(Built, Built.nodes[i].id) > 1 <=> Built.nodes[i].attrs.shape = "diamond"

\* The edges of g that are not back-edges of a loop.
ForwardEdges(g) == {i \in DOMAIN g.edges : g.edges[i].label # "Loop"}

\* The nodes a path of forward edges of length at least one leads to from n.
RECURSIVE ForwardFrom(_, _, _)
ForwardFrom(g, S, k) ==
    LET next == {g.edges[i].target : i \in {j \in ForwardEdges(g) : g.edges[j].source \in S}}
    IN  IF k = 0 THEN {} ELSE next \cup ForwardFrom(g, next, k - 1)

\* C19: the Loop back-edges are the only source of cycles: every edge with
\* the empty label goes to a node created strictly later than its source,
\* every edge labelled Loop goes to a while-predicate created no later than
\* its source, and the graph without the Loop edges is acyclic.
C19_OnlyLoopEdgesGoBack ==
    /\ \A i \in DOMAIN graph.edges :
          LET e == graph.edges[i]
          IN  /\ e.label \in {"", "Loop"}
              /\ e.label = "" => e.source[2] < e.target[2]
              /\ e.label = "Loop" =>
                    /\ e.target[2] <= e.source[2]
                    /\ e.target \in NodeIds(graph)
                    /\ graph.nodes[NodeAt(graph, e.target)].attrs.fillcolor = "#F9E79F"
    /\ Finished => \A n \in NodeIds(Built) : n \notin ForwardFrom(Built, {n}, Len(Built.nodes))

\* A graph with a back-edge from a body node and a forward edge that passes
\* over a node has been built.
C19_Witness ==
    /\ Finished
    /\ \E i \in LoopEdges(graph) : graph.edges[i].target[2] < graph.edges[i].source[2]
    /\ \E i \in ForwardEdges(graph) : graph.edges[i].target[2] > graph.edges[i].source[2] + 1

\* C20: STOP is the only sink of a built graph: every other node has at
\* least one outgoing edge, and no node has more than two.
C20_StopIsTheOnlySink ==
    Finished =>
        /\ Cardinality(NodesWith(Built, STOPAttrs)) = 1
        /\ \A n \in NodeIds(Built) :
              /\ out_degree(Built, n) = 0 <=> n \in NodesWith(Built, STOPAttrs)
              /\ out_degree(Built, n) <= 2

\* A conditional with an else arm and a loop have been built: nodes with two
\* outgoing edges and nodes with one.
C20_Witness ==
    /\ Finished
    /\ LoopEdges(Built) # {}
    /\ \E i \in DOMAIN code_input.body :
          code_input.body[i].kind = "If" /\ nodes_created(code_input.body[i].orelse) > 0
====
